---- MODULE Spec2Model ----
(***************************************************************************)
(* Model of the Ray Serve engine handler                                   *)
(* (mindsdb/integrations/handlers/ray_serve_handler/ray_serve_handler.py). *)
(*                                                                         *)
(* Python values are records [t, s, d, l]: t is the type tag, s the text   *)
(* of a str / bool / number, d the items of a dict (a function from keys   *)
(* to values) and l the items of a list.  Every value has the same four    *)
(* fields, so any two values can be compared.                              *)
(***************************************************************************)
EXTENDS Integers, Sequences, FiniteSets, TLC

VARIABLES
    model_storage,  \* the storage collaborator: key -> persisted value
    call,           \* the last call of the host: operation and arguments
    ret,            \* what that call did: requests issued, response, return value or exception
    created         \* history: the arguments of the most recent create call

vars == <<model_storage, call, ret, created>>

\* Largest number of rows of a prediction column returned by the endpoint.
MaxRows == 2

----------------------------------------------------------------------------
\* Python values

EmptyDict == [k \in {} |-> 0]

NoneV == [t |-> "none", s |-> "", d |-> EmptyDict, l |-> <<>>]

Str(x) == [t |-> "str", s |-> x, d |-> EmptyDict, l |-> <<>>]

Bool(b) == [t |-> "bool", s |-> IF b THEN "True" ELSE "False", d |-> EmptyDict, l |-> <<>>]

Num(x) == [t |-> "num", s |-> x, d |-> EmptyDict, l |-> <<>>]

Dict(m) == [t |-> "dict", s |-> "", d |-> m, l |-> <<>>]

List(q) == [t |-> "list", s |-> "", d |-> EmptyDict, l |-> q]

\* bool(v): the truth value Python gives v in `if v` / `not v`
Truthy(v) ==
    CASE v.t = "none" -> FALSE
      [] v.t = "bool" -> v.s = "True"
      [] v.t = "str"  -> v.s # ""
      [] v.t = "num"  -> v.s # "0"
      [] v.t = "dict" -> DOMAIN v.d # {}
      [] v.t = "list" -> v.l # <<>>

\* d.get(k, default)
Get(d, k, default) == IF k \in DOMAIN d THEN d[k] ELSE default

\* {**a, **b}
Merge(a, b) == [k \in DOMAIN a \cup DOMAIN b |-> IF k \in DOMAIN b THEN b[k] ELSE a[k]]

\* {k: v for k, v in dict.items() if v is not None}
dictWithoutNone(dict) == [k \in {x \in DOMAIN dict : dict[x].t # "none"} |-> dict[k]]

----------------------------------------------------------------------------
\* Outcome of a call

NoNet == [exc |-> "none", fmt |-> "none", text |-> "", val |-> NoneV]

NoRet ==
    [kind |-> "none", exc |-> "", payload |-> NoneV, result |-> NoneV,
     posts |-> 0, url |-> NoneV, enc |-> "none", dec |-> "none",
     args |-> NoneV, resp |-> NoNet]

Return(result, r) == [r EXCEPT !.kind = "return", !.result = result]

Raise(exc, payload, r) == [r EXCEPT !.kind = "raise", !.exc = exc, !.payload = payload]

NoCall == [op |-> "none", target |-> "", df |-> NoneV, args |-> NoneV]

----------------------------------------------------------------------------
\* create_validation

MsgUsing == "Error: This engine requires some parameters via the 'using' clause."
MsgTrainUrl == "Error: Please provide a URL for the training endpoint."
MsgPredictUrl == "Error: Please provide a URL for the prediction endpoint."

create_validation_skip(target, args) ==
    IF args.t # "dict" THEN Raise("AttributeError", NoneV, NoRet)
    ELSE IF ~Truthy(Get(args.d, "using", NoneV)) THEN Raise("Exception", Str(MsgUsing), NoRet)
    ELSE IF ~Truthy(Get(args.d["using"].d, "train_url", NoneV))
         THEN Raise("Exception", Str(MsgTrainUrl), NoRet)
    ELSE Return(NoneV, NoRet)

create_validation(target, args) ==
    IF args.t # "dict" THEN Raise("AttributeError", NoneV, NoRet)
    ELSE IF ~Truthy(Get(args.d, "using", NoneV)) THEN Raise("Exception", Str(MsgUsing), NoRet)
    ELSE IF ~Truthy(Get(args.d["using"].d, "train_url", NoneV))
         THEN Raise("Exception", Str(MsgTrainUrl), NoRet)
    ELSE IF ~Truthy(Get(args.d["using"].d, "predict_url", NoneV))
         THEN Raise("Exception", Str(MsgPredictUrl), NoRet)
    ELSE Return(NoneV, NoRet)

----------------------------------------------------------------------------
\* Inputs

Opt(k, vs) == {EmptyDict} \cup {k :> v : v \in vs}

TrainUrls == {Str(""), Str("http://train"), Str("ftp://train")}

PredictUrls == {Str(""), Str("http://predict"), Str("ftp://predict")}

Extras == {EmptyDict, ("a" :> Num("1")) @@ ("b" :> Num("2"))}

UrlPairs ==
    {Merge(tu, pu) : tu \in Opt("train_url", TrainUrls), pu \in Opt("predict_url", PredictUrls)}

GoodUrls == ("train_url" :> Str("http://train")) @@ ("predict_url" :> Str("http://predict"))

Usings ==
    UrlPairs \cup {Merge(GoodUrls, x) :
                    x \in Opt("is_parquet", {Bool(TRUE), Bool(FALSE)}) \cup Extras}

CreateArgs == {NoneV, Dict(EmptyDict)} \cup {Dict("using" :> Dict(u)) : u \in Usings}

Targets == {"prediction", "y"}

----------------------------------------------------------------------------

PredValues == {[i \in 1..n |-> Num(IF i % 2 = 1 THEN "1" ELSE "0")] : n \in 1..MaxRows}

\* Response bodies the remote endpoint may send
Bodies ==
    {[exc |-> "", fmt |-> "text", text |-> x, val |-> NoneV] : x \in {"", "Internal Server Error"}}
    \cup {[exc |-> "", fmt |-> "json", text |-> "", val |-> v] :
            v \in {NoneV, Num("42"), List(<<>>), Str("prediction failed"),
                   Dict(EmptyDict), Dict("detail" :> Str("timeout")),
                   Dict("status" :> Str("ok")), Dict("status" :> Str("error: bad schema")),
                   Dict("status" :> NoneV), Dict("status" :> Str(""))}}
    \cup {[exc |-> "", fmt |-> "json", text |-> "", val |-> Dict("prediction" :> List(q))] :
            q \in PredValues}
    \cup {[exc |-> "", fmt |-> "parquet", text |-> "PAR1", val |-> Dict(c)] :
            c \in {"prediction" :> List(q) : q \in PredValues} \cup {"other" :> List(<<Num("0")>>)}}

PredictParams == {Dict(("c" :> Num("4")) @@ ("d" :> Num("5"))), Dict("target" :> Str("w"))}

PredictArgs ==
    {NoneV, Dict(("b" :> NoneV) @@ ("c" :> Num("3")) @@ ("predict_params" :> Dict(("c" :> Num("4")) @@ ("d" :> Num("5")))))}
    \cup {Dict(x) : x \in Opt("predict_url", {NoneV, Str("http://other")})
                      \cup Opt("is_parquet", {Bool(TRUE), NoneV})
                      \cup Opt("target", {Str("z")})
                      \cup Opt("predict_params", PredictParams)}

Dfs == {NoneV, Str("df")}

----------------------------------------------------------------------------
\* requests.post(url, ...): the exceptions it raises or the response it gets

Scheme(u) ==
    CASE u \in {"http://train", "http://predict", "http://other"} -> "http"
      [] u \in {"ftp://train", "ftp://predict"} -> "ftp"
      [] OTHER -> ""

Post(url) ==
    IF url.t # "str" \/ Scheme(url.s) = ""
    THEN {[NoNet EXCEPT !.exc = "MissingSchema"]}
    ELSE IF Scheme(url.s) # "http"
    THEN {[NoNet EXCEPT !.exc = "InvalidSchema"]}
    ELSE {[NoNet EXCEPT !.exc = "ConnectionError"]} \cup Bodies

\* the request as issued: one call of requests.post
Posted(url, enc, net, r) == [r EXCEPT !.posts = @ + 1, !.url = url, !.enc = enc, !.resp = net]

IsParquet(a) == Truthy(Get(a, "is_parquet", Bool(FALSE)))

Encoding(a) == IF IsParquet(a) THEN "parquet" ELSE "json"

----------------------------------------------------------------------------
\* json_set / json_get of the storage collaborator

json_set(storage, key, value) == Merge(storage, key :> value)

json_get(storage, key) == storage[key]

----------------------------------------------------------------------------
\* create

MsgInvalidTrainUrl == "Error: The URL provided for the training endpoint is invalid."

\* args = args['using']; args['target'] = target
create_args(target, args) == Merge(args.d["using"].d, "target" :> Str(target))

\* lines 59-69: decode the training response and raise on a captured error
create_response(resp, r) ==
    IF resp.fmt # "json"
    THEN IF Truthy(Str(resp.text))
         THEN Raise("RayServeException", Str(resp.text), [r EXCEPT !.dec = "json"])
         ELSE Return(NoneV, [r EXCEPT !.dec = "json"])
    ELSE IF resp.val.t # "dict"
    THEN Raise("AttributeError", NoneV, [r EXCEPT !.dec = "json"])
    ELSE IF Get(resp.val.d, "status", NoneV) # Str("ok")
    THEN IF "status" \notin DOMAIN resp.val.d
         THEN Raise("KeyError", Str("status"), [r EXCEPT !.dec = "json"])
         ELSE IF Truthy(resp.val.d["status"])
         THEN Raise("RayServeException", resp.val.d["status"], [r EXCEPT !.dec = "json"])
         ELSE Return(NoneV, [r EXCEPT !.dec = "json"])
    ELSE Return(NoneV, [r EXCEPT !.dec = "json"])

create_uncaught(target, df, args, net) ==
    LET a == create_args(target, args) IN
    IF df.t = "none"
    THEN Raise("AttributeError", NoneV, NoRet)
    ELSE LET r == Posted(a["train_url"], Encoding(a), net, NoRet) IN
         IF net.exc # ""
         THEN Raise(net.exc, NoneV, r)
         ELSE create_response(net, r)

\* lines 44-69, for the outcome net of requests.post
create(target, df, args, net) ==
    LET a == create_args(target, args) IN
    IF df.t = "none"
    THEN Raise("AttributeError", NoneV, NoRet)
    ELSE LET r == Posted(a["train_url"], Encoding(a), net, NoRet) IN
         IF net.exc = "InvalidSchema"
         THEN Raise("Exception", Str(MsgInvalidTrainUrl), r)
         ELSE IF net.exc # ""
         THEN Raise(net.exc, NoneV, r)
         ELSE create_response(net, r)

Create ==
    \E target \in Targets, df \in Dfs, args \in CreateArgs :
        /\ create_validation(target, args).kind = "return"
        /\ \E net \in (IF df.t = "none" THEN {NoNet} ELSE Post(create_args(target, args)["train_url"])) :
            /\ call' = [op |-> "create", target |-> target, df |-> df, args |-> args]
            /\ model_storage' = json_set(model_storage, "args", Dict(create_args(target, args)))
            /\ ret' = create(target, df, args, net)
            /\ created' = call'

----------------------------------------------------------------------------
\* describe

describe_swapped(storage, key) ==
    LET args == json_get(storage, "args").d IN
    Return(Dict(("TRAIN_URL" :> List(<<args["train_url"]>>))
                @@ ("PREDICT_URL" :> List(<<args["train_url"]>>))
                @@ ("TARGET" :> List(<<args["target"]>>))), NoRet)

describe(storage, key) ==
    LET args == json_get(storage, "args").d IN
    Return(Dict(("TRAIN_URL" :> List(<<args["train_url"]>>))
                @@ ("PREDICT_URL" :> List(<<args["predict_url"]>>))
                @@ ("TARGET" :> List(<<args["target"]>>))), NoRet)

Describe ==
    \E key \in {NoneV, Str("info")} :
        /\ "args" \in DOMAIN model_storage
        /\ call' = [op |-> "describe", target |-> "", df |-> NoneV, args |-> key]
        /\ ret' = describe(model_storage, key)
        /\ UNCHANGED <<model_storage, created>>

----------------------------------------------------------------------------
\* predict

MsgParquet == "Could not decode parquet."

\* lines 114-116: stored args, then the call's args, then predict_params
predict_args(storage, args) ==
    LET merged == Merge(json_get(storage, "args").d, args.d)
        pred_args == Get(merged, "predict_params", Dict(EmptyDict))
    IN Merge(merged, pred_args.d)

\* 'prediction' in response
HasPrediction(response) ==
    CASE response.t = "dict" -> "prediction" \in DOMAIN response.d
      [] response.t = "list" -> Str("prediction") \in {response.l[i] : i \in DOMAIN response.l}
      [] response.t = "str"  -> response.s \in {"prediction", "prediction failed"}
      [] OTHER -> FALSE

\* response[target] = response.pop('prediction')
Rename(response, target) ==
    Merge([k \in DOMAIN response \ {"prediction"} |-> response[k]], target :> response["prediction"])

\* lines 129-151: decode the prediction response
predict_response(resp, a, r) ==
    LET d == [r EXCEPT !.dec = Encoding(a)] IN
    IF IsParquet(a) /\ resp.fmt # "parquet"
    THEN Raise("RayServeException", Str(MsgParquet), d)
    ELSE IF ~IsParquet(a) /\ resp.fmt # "json"
    THEN Raise("RayServeException", Str(resp.text), d)
    ELSE LET response == resp.val IN
         IF response.t \in {"none", "num", "bool"}
         THEN Raise("TypeError", NoneV, d)
         ELSE IF HasPrediction(response)
         THEN IF a["target"] # Str("prediction")
              THEN IF response.t # "dict"
                   THEN Raise("AttributeError", NoneV, d)
                   ELSE Return(Dict(Rename(response.d, a["target"].s)), d)
              ELSE IF response.t # "dict"
                   THEN Raise("ValueError", NoneV, d)
                   ELSE Return(response, d)
         ELSE Raise("RayServeException", response, d)

\* lines 113-151, for the outcome net of requests.post
predict(storage, df, args, net) ==
    IF args.t # "dict"
    THEN Raise("TypeError", NoneV, NoRet)
    ELSE LET a == predict_args(storage, args)
             r == Posted(a["predict_url"], Encoding(a), net, [NoRet EXCEPT !.args = Dict(a)])
         IN IF net.exc # ""
            THEN Raise(net.exc, NoneV, r)
            ELSE predict_response(net, a, r)

predict_storage_saves(storage, args) ==
    IF args.t # "dict" THEN storage
    ELSE json_set(storage, "args", Dict(predict_args(storage, args)))

\* the storage after predict: predict only reads it
predict_storage(storage, args) == storage

Predict ==
    \E args \in PredictArgs :
        /\ "args" \in DOMAIN model_storage
        /\ \E net \in (IF args.t # "dict" THEN {NoNet}
                       ELSE Post(predict_args(model_storage, args)["predict_url"])) :
            /\ call' = [op |-> "predict", target |-> "", df |-> Str("df"), args |-> args]
            /\ ret' = predict(model_storage, Str("df"), args, net)
            /\ model_storage' = predict_storage(model_storage, args)
            /\ UNCHANGED created

----------------------------------------------------------------------------

Init ==
    /\ model_storage = EmptyDict
    /\ call = NoCall
    /\ ret = NoRet
    /\ created = NoCall

CreateValidation ==
    \E target \in Targets, args \in CreateArgs :
        /\ call' = [op |-> "create_validation", target |-> target, df |-> NoneV, args |-> args]
        /\ ret' = create_validation(target, args)
        /\ UNCHANGED <<model_storage, created>>

Next == CreateValidation \/ Create \/ Predict \/ Describe

Spec == Init /\ [][Next]_vars

----------------------------------------------------------------------------
\* Shared vocabulary of the properties

\* a value that is absent (None stands for absent) or empty
Empty(v) == v \in {NoneV, Str(""), Dict(EmptyDict)}

Using(args) == IF args.t = "dict" THEN Get(args.d, "using", NoneV) ELSE NoneV

AllPresent(args) ==
    /\ ~Empty(Using(args))
    /\ ~Empty(Get(Using(args).d, "train_url", NoneV))
    /\ ~Empty(Get(Using(args).d, "predict_url", NoneV))

Persisted == model_storage["args"].d

Responded == ret.posts > 0 /\ ret.resp.exc = ""

\* the response body can be decoded in format fmt
Decodes(fmt) == ret.resp.fmt = fmt

----------------------------------------------------------------------------
\* C1: create_validation raises exactly when `using`, `using.train_url` or
\* `using.predict_url` is absent or empty; it issues no HTTP request and
\* leaves the model storage as it was.
C1_ValidationRejectsMissing ==
    [][call'.op = "create_validation" =>
        /\ (ret'.kind = "raise") <=> ~AllPresent(call'.args)
        /\ (ret'.kind = "return") <=> AllPresent(call'.args)
        /\ ret'.posts = 0
        /\ model_storage' = model_storage]_vars

C1_Witness ==
    /\ call.op = "create_validation"
    /\ ~Empty(Get(Using(call.args).d, "train_url", NoneV))
    /\ "predict_url" \notin DOMAIN Using(call.args).d
    /\ ret.kind = "raise"
    /\ "args" \in DOMAIN model_storage

\* C2: the effective arguments of predict are persisted args, then the
\* call's args without its null values, then predict_params without its
\* null values (a null never overrides an earlier value).
C2_NullNeverOverrides ==
    (call.op = "predict" /\ call.args.t = "dict") =>
        LET m == Merge(Persisted, dictWithoutNone(call.args.d))
            pp == Get(m, "predict_params", Dict(EmptyDict))
        IN ret.args = Dict(Merge(m, dictWithoutNone(pp.d)))

\* C3: for every training response create raises RayServeException, with the
\* raw text when the body is not JSON and with the status value when the
\* status is not exactly "ok" (absent, null and empty included), and
\* returns only when the status is exactly "ok".
C3_CreateRaisesUnlessOk ==
    (call.op = "create" /\ Responded) =>
        LET ok == Decodes("json") /\ ret.resp.val.t = "dict"
                  /\ Get(ret.resp.val.d, "status", NoneV) = Str("ok")
        IN /\ (ret.kind = "return") <=> ok
           /\ ~ok => /\ ret.kind = "raise"
                     /\ ret.exc = "RayServeException"
                     /\ ~Decodes("json") => ret.payload = Str(ret.resp.text)
                     /\ (Decodes("json") /\ ret.resp.val.t = "dict")
                            => ret.payload = Get(ret.resp.val.d, "status", NoneV)

\* C4: every failure path of predict's response handling raises
\* RayServeException: with the decoded body when it has no `prediction`
\* field, with the response text when JSON decoding fails, with the
\* could-not-decode message otherwise; no result, no other exception type.
C4_PredictFailuresAreDomainErrors ==
    (call.op = "predict" /\ Responded) =>
        LET decoded == Decodes(ret.dec)
            hasField == decoded /\ ret.resp.val.t = "dict" /\ "prediction" \in DOMAIN ret.resp.val.d
        IN ~hasField =>
            /\ ret.kind = "raise"
            /\ ret.exc = "RayServeException"
            /\ ret.result = NoneV
            /\ ret.payload = IF decoded THEN ret.resp.val
                             ELSE IF ret.dec = "json" THEN Str(ret.resp.text)
                             ELSE Str(MsgParquet)

\* C5: a predict that returns names the prediction values by the persisted
\* target, whatever the call's arguments: a column of that name holds the
\* response's prediction values, and there is a `prediction` column only if
\* the persisted target is `prediction`.
C5_ColumnNamedByPersistedTarget ==
    (call.op = "predict" /\ ret.kind = "return") =>
        LET target == Persisted["target"].s IN
        /\ target \in DOMAIN ret.result.d
        /\ ret.result.d[target] = ret.resp.val.d["prediction"]
        /\ "prediction" \in DOMAIN ret.result.d => target = "prediction"

\* C6: describe returns one row whose TRAIN_URL, PREDICT_URL and TARGET are
\* the train_url and predict_url of the `using` mapping and the target of
\* the most recent create, whatever calls came in between.
C6_DescribeReturnsCreated ==
    call.op = "describe" =>
        /\ ret.kind = "return"
        /\ DOMAIN ret.result.d = {"TRAIN_URL", "PREDICT_URL", "TARGET"}
        /\ ret.result.d["TRAIN_URL"] = List(<<Using(created.args).d["train_url"]>>)
        /\ ret.result.d["PREDICT_URL"] = List(<<Using(created.args).d["predict_url"]>>)
        /\ ret.result.d["TARGET"] = List(<<Str(created.target)>>)

C6_Witness ==
    /\ call.op = "describe"
    /\ created.target = "y"
    /\ Using(created.args).d["train_url"] = Str("ftp://train")
    /\ ret.kind = "return"

\* C7: a create whose request fails (invalid URL, undecodable response or
\* status other than "ok") leaves an Uninitialized adapter Uninitialized
\* (nothing persisted), and nothing takes a Trained adapter back.
C7_FailedCreateStaysUninitialized ==
    [][/\ ("args" \notin DOMAIN model_storage /\ call'.op = "create"
            /\ ret'.posts = 1 /\ ret'.kind = "raise")
            => "args" \notin DOMAIN model_storage'
       /\ "args" \in DOMAIN model_storage => "args" \in DOMAIN model_storage']_vars

\* C8: predict and describe, succeeding or failing and whatever their
\* arguments, leave the value stored under `args` as create stored it.
C8_PersistedArgsFrozen ==
    [][call'.op \in {"predict", "describe"} =>
        /\ model_storage' = model_storage
        /\ model_storage'["args"] = Dict(create_args(created'.target, created'.args))]_vars

C8_Witness ==
    /\ call.op = "predict"
    /\ call.args.t = "dict"
    /\ Get(call.args.d, "predict_url", NoneV) = Str("http://other")
    /\ ret.url = Str("http://other")
    /\ ret.kind = "return"

\* C9: each create and each predict calls the endpoint exactly once, encodes
\* the request as parquet exactly when the effective is_parquet is true, and
\* predict decodes the response in the format of the request.
C9_ExactlyOnePost ==
    /\ call.op = "create" =>
        /\ ret.posts = 1
        /\ ret.url = Persisted["train_url"]
        /\ (ret.enc = "parquet") <=> (Get(Persisted, "is_parquet", Bool(FALSE)) = Bool(TRUE))
    /\ call.op = "predict" =>
        /\ ret.posts = 1
        /\ ret.url = ret.args.d["predict_url"]
        /\ (ret.enc = "parquet") <=> (Get(ret.args.d, "is_parquet", Bool(FALSE)) = Bool(TRUE))
        /\ Responded => ret.dec = ret.enc

\* C10: when requests.post fails with InvalidSchema, create raises the
\* invalid-training-URL error without decoding anything, and predict raises
\* as well and returns no prediction.
C10_InvalidSchemaSurfaces ==
    (call.op \in {"create", "predict"} /\ ret.resp.exc = "InvalidSchema") =>
        /\ ret.kind = "raise"
        /\ ret.result = NoneV
        /\ ret.dec = "none"
        /\ call.op = "create" => (ret.exc = "Exception" /\ ret.payload = Str(MsgInvalidTrainUrl))

C10_Witness ==
    /\ call.op = "create"
    /\ ret.posts = 1
    /\ ret.url = Str("ftp://train")
    /\ ret.resp.exc = "InvalidSchema"

====
